---- MODULE Spec2Model ----
(***************************************************************************)
(* Model of tools/import_paypal_csv.py: the PayPal CSV importer.           *)
(*                                                                         *)
(* Text is modelled as a sequence of one-character strings, so that        *)
(* lower(), strip(), split(), capitalize() and substring tests are         *)
(* computed character by character as Python computes them.  A float is a  *)
(* record [nan, val]: whole amounts plus the IEEE not-a-number that        *)
(* float("nan") yields.  The donation date and the %-formatting of console *)
(* lines are left out: no property below reads them.                       *)
(***************************************************************************)
EXTENDS Integers, Sequences, FiniteSets, TLC

VARIABLES files, dry_run, force, pc, run, last_run, idx, parsed, all_rows,
          report, donors, id_by_email, committed, txn, before, console,
          executed

vars == <<files, dry_run, force, pc, run, last_run, idx, parsed, all_rows,
          report, donors, id_by_email, committed, txn, before, console,
          executed>>

(***************************************************************************)
(* Bounds of the model.                                                    *)
(***************************************************************************)
MaxRows == 2
MaxRuns == 2

(***************************************************************************)
(* Characters and the str methods the importer uses.                       *)
(***************************************************************************)
LowerAlpha == <<"a", "b", "c", "d", "e", "f", "g", "h", "i", "j", "k", "l", "m", "n", "o", "p", "q", "r", "s", "t", "u", "v", "w", "x", "y", "z">>
UpperAlpha == <<"A", "B", "C", "D", "E", "F", "G", "H", "I", "J", "K", "L", "M", "N", "O", "P", "Q", "R", "S", "T", "U", "V", "W", "X", "Y", "Z">>
Digits == <<"0", "1", "2", "3", "4", "5", "6", "7", "8", "9">>
\* the characters of the model in code-point order (what sorted() compares)
CodePoints == <<" ", "$", "&", "'", "(", ")", ",", "-", ".", "0", "1", "2", "3", "4", "5", "6", "7", "8", "9", "@", "A", "B", "C", "D", "E", "F", "G", "H", "I", "J", "K", "L", "M", "N", "O", "P", "Q", "R", "S", "T", "U", "V", "W", "X", "Y", "Z", "_", "a", "b", "c", "d", "e", "f", "g", "h", "i", "j", "k", "l", "m", "n", "o", "p", "q", "r", "s", "t", "u", "v", "w", "x", "y", "z">>

\* row.get(col) of a column the file does not have
None == <<"None">>

IndexIn(c, alphabet) == CHOOSE i \in 1..Len(alphabet) : alphabet[i] = c
IsIn(c, alphabet) == \E i \in 1..Len(alphabet) : alphabet[i] = c

LowerChar(c) == IF IsIn(c, UpperAlpha) THEN LowerAlpha[IndexIn(c, UpperAlpha)] ELSE c
UpperChar(c) == IF IsIn(c, LowerAlpha) THEN UpperAlpha[IndexIn(c, LowerAlpha)] ELSE c

\* str.lower()
Lower(s) == [i \in 1..Len(s) |-> LowerChar(s[i])]

\* str.capitalize(): first character upper-cased, the rest lower-cased
Capitalize(s) == [i \in 1..Len(s) |-> IF i = 1 THEN UpperChar(s[i]) ELSE LowerChar(s[i])]

RECURSIVE LStrip(_)
LStrip(s) == IF s # <<>> /\ Head(s) = " " THEN LStrip(Tail(s)) ELSE s

RECURSIVE RStrip(_)
RStrip(s) == IF s # <<>> /\ s[Len(s)] = " " THEN RStrip(SubSeq(s, 1, Len(s) - 1)) ELSE s

\* str.strip()
Strip(s) == RStrip(LStrip(s))

\* str.replace(c, "")
RECURSIVE Remove(_, _)
Remove(s, c) ==
    IF s = <<>> THEN <<>>
    ELSE IF Head(s) = c THEN Remove(Tail(s), c)
    ELSE <<Head(s)>> \o Remove(Tail(s), c)

\* str.split(d) with an explicit one-character separator: keeps empty pieces
RECURSIVE SplitOn(_, _)
SplitOn(s, d) ==
    IF \A i \in 1..Len(s) : s[i] # d THEN <<s>>
    ELSE LET p == CHOOSE i \in 1..Len(s) : s[i] = d /\ \A j \in 1..(i - 1) : s[j] # d
         IN  <<SubSeq(s, 1, p - 1)>> \o SplitOn(SubSeq(s, p + 1, Len(s)), d)

\* str.split() without a separator: runs of whitespace separate, no empty piece
SplitWs(s) == SelectSeq(SplitOn(s, " "), LAMBDA t : t # <<>>)

\* d.join(parts)
RECURSIVE Join(_, _)
Join(parts, d) ==
    IF parts = <<>> THEN <<>>
    ELSE IF Len(parts) = 1 THEN parts[1]
    ELSE parts[1] \o <<d>> \o Join(Tail(parts), d)

\* tok in s: substring test
Contains(s, tok) ==
    \E i \in 1..(Len(s) - Len(tok) + 1) : SubSeq(s, i, i + Len(tok) - 1) = tok

(***************************************************************************)
(* Module constants.                                                       *)
(***************************************************************************)
MERGE_EMAIL == <<"s", "l", "e", "e", "p", "s", "t", "o", "l", "o", "n", "g", "2", "@", "g", "m", "a", "i", "l", ".", "c", "o", "m">>
MONASTERY_EMAIL == <<"i", "n", "f", "o", "@", "m", "o", "n", "t", "e", "a", "g", "l", "e", "m", "o", "n", "a", "s", "t", "e", "r", "y", ".", "o", "r", "g">>
CASLETON_EMAIL == <<"c", "h", "r", "i", "s", "c", "a", "s", "l", "e", "t", "o", "n", "@", "g", "m", "a", "i", "l", ".", "c", "o", "m">>
SPORTYS_EMAIL == <<"s", "p", "o", "r", "t", "y", "s", "t", "n", "@", "b", "e", "l", "l", "s", "o", "u", "t", "h", ".", "n", "e", "t">>
SOURCE_TAG == <<"c", "s", "v", "_", "i", "m", "p", "o", "r", "t">>

NapoleonKeys == { <<"n", "a", "p", "o", "l", "e", "o", "n", " ", "k", "a", "n", "a", "r", "i", "s">>,
                  <<"n", "a", "p", "o", "l", "e", "o", "n", " ", " ", "k", "a", "n", "a", "r", "i", "s">> }
NapoleonName == << <<"N", "a", "p", "o", "l", "e", "o", "n">>, <<"K", "a", "n", "a", "r", "i">> >>
CasletonName == << <<"C", "a", "t", "h", "e", "r", "i", "n", "e", " ", "&", " ", "W", "a", "r", "r", "e", "n">>, <<"C", "a", "s", "l", "e", "t", "o", "n">> >>
SportysName == << <<"S", "p", "o", "r", "t", "y", "'", "s", " ", "A", "w", "a", "r", "d", "s">>, <<>> >>
business_tokens == { <<"a", "w", "a", "r", "d", "s">>, <<"i", "n", "c">>, <<"l", "l", "c">>,
                     <<"c", "o", "m", "p", "a", "n", "y">>, <<"c", "o", "r", "p">>,
                     <<"c", "o", "r", "p", "o", "r", "a", "t", "i", "o", "n">>,
                     <<"e", "n", "t", "e", "r", "p", "r", "i", "s", "e", "s">>,
                     <<"g", "r", "o", "u", "p">> }
DanielLower == <<"d", "a", "n", "i", "e", "l">>
HolmesLower == <<"h", "o", "l", "m", "e", "s">>
DanielName == << <<"D", "a", "n", "i", "e", "l">>, <<"H", "o", "l", "m", "e", "s">> >>
LaceyLower == <<"l", "a", "c", "e", "y">>
LaceyLastLower == { <<"v", "a", "n", "n">>, <<"d", "i", "o", "n", "e">> }
LaceyName == << <<"L", "a", "c", "e", "y">>, <<"D", "i", "o", "n", "e">> >>

(***************************************************************************)
(* smart_title and normalize_name.                                         *)
(***************************************************************************)
\* one space-separated part: capitalize around hyphens, then around apostrophes
TitlePart(p) ==
    LET hy == SplitOn(p, "-")
        sub1 == [i \in 1..Len(hy) |-> Capitalize(hy[i])]
        Apos(seg) == LET ap == SplitOn(seg, "'")
                     IN  Join([i \in 1..Len(ap) |-> Capitalize(ap[i])], "'")
    IN  Join([i \in 1..Len(sub1) |-> Apos(sub1[i])], "-")

smart_title(s) ==
    IF s = <<>> THEN s
    ELSE LET parts == SplitOn(s, " ")
         IN  Join([i \in 1..Len(parts) |-> TitlePart(parts[i])], " ")

NameResult(first, last) == [raised |-> FALSE, first |-> first, last |-> last]
\* tokens[0] on an empty token list raises IndexError
NameRaised == [raised |-> TRUE, first |-> <<>>, last |-> <<>>]

normalize_name(full_name, email) ==
    IF full_name = <<>> THEN NameResult(<<>>, <<>>)
    ELSE LET name == Strip(full_name) IN
      IF Lower(name) \in NapoleonKeys THEN NameResult(NapoleonName[1], NapoleonName[2])
      ELSE IF Lower(email) = CASLETON_EMAIL THEN NameResult(CasletonName[1], CasletonName[2])
      ELSE IF Lower(email) = SPORTYS_EMAIL THEN NameResult(SportysName[1], SportysName[2])
      ELSE IF \E tok \in business_tokens : Contains(Lower(name), tok)
           THEN NameResult(smart_title(name), <<>>)
      ELSE LET tokens == SplitWs(name) IN
        IF tokens = <<>> THEN NameRaised
        ELSE LET first == smart_title(tokens[1])
                 last == IF Len(tokens) > 1 THEN smart_title(tokens[Len(tokens)]) ELSE <<>>
             IN  IF Lower(first) = DanielLower /\ Lower(last) = HolmesLower
                     THEN NameResult(DanielName[1], DanielName[2])
                 ELSE IF Lower(first) = LaceyLower /\ Lower(last) \in LaceyLastLower
                     THEN NameResult(LaceyName[1], LaceyName[2])
                 ELSE NameResult(first, last)

(***************************************************************************)
(* parse_amount.                                                           *)
(***************************************************************************)
Num(n) == [nan |-> FALSE, val |-> n]
NaN == [nan |-> TRUE, val |-> 0]
NanLower == <<"n", "a", "n">>

\* IEEE comparisons: every comparison with NaN is false
FloatLe0(a) == ~a.nan /\ a.val <= 0
FloatGt0(a) == ~a.nan /\ a.val > 0
FloatAdd(a, b) == IF a.nan \/ b.nan THEN NaN ELSE Num(a.val + b.val)

RECURSIVE DigitsValue(_)
DigitsValue(s) ==
    IF s = <<>> THEN 0
    ELSE 10 * DigitsValue(SubSeq(s, 1, Len(s) - 1)) + (IndexIn(s[Len(s)], Digits) - 1)

AllDigits(s) == s # <<>> /\ \A i \in 1..Len(s) : IsIn(s[i], Digits)

AmountResult(a) == [raised |-> FALSE, value |-> a]
AmountRaised == [raised |-> TRUE, value |-> Num(0)]

\* float(g) on the whole-number and nan literals of the model
ToFloat(g) ==
    LET s == Strip(g)
        signed == s # <<>> /\ s[1] \in {"-", "+"}
        body == IF signed THEN Tail(s) ELSE s
    IN  IF Lower(body) = NanLower THEN AmountResult(NaN)
        ELSE IF AllDigits(body)
             THEN AmountResult(Num(IF signed /\ s[1] = "-" THEN 0 - DigitsValue(body) ELSE DigitsValue(body)))
        ELSE AmountRaised

parse_amount(gross) ==
    IF gross = None THEN AmountRaised
    ELSE LET g1 == Remove(Strip(Remove(gross, ",")), "$")
             g2 == IF g1 # <<>> /\ g1[1] = "(" /\ g1[Len(g1)] = ")"
                   THEN <<"-">> \o SubSeq(g1, 2, Len(g1) - 1) ELSE g1
         IN  ToFloat(g2)

(***************************************************************************)
(* load_rows_from_csv.  A raw row is [name, email, gross, txn_id], each the *)
(* value row.get(column) gives.                                            *)
(***************************************************************************)
OrEmpty(v) == IF v = None THEN <<>> ELSE v

Candidate(email, first, last, amount, raw_email, txn_id) ==
    [email |-> email, first_name |-> first, last_name |-> last, amount |-> amount,
     raw_email |-> raw_email, txn_id |-> txn_id, source |-> SOURCE_TAG]

\* variant: the loader tests for the trigger name only, which normalize_name
\* has already rewritten
IsLacey_trigger(first, last) == Lower(first) = LaceyLower /\ Lower(last) = <<"v", "a", "n", "n">>


IsLacey(first, last) == Lower(first) = LaceyLower /\ Lower(last) \in LaceyLastLower

\* the body of the reader loop for one row: "skip" (continue), "raise", or "row"
LoadRow(row) ==
    LET email == Strip(OrEmpty(row.email))
        amt == parse_amount(row.gross)
        nn == normalize_name(OrEmpty(row.name), email)
        merged == IsLacey(nn.first, nn.last)
    IN  IF email = <<>> THEN [kind |-> "skip"]
        ELSE IF Lower(email) = MONASTERY_EMAIL THEN [kind |-> "skip"]
        ELSE IF amt.raised THEN [kind |-> "skip"]
        ELSE IF FloatLe0(amt.value) THEN [kind |-> "skip"]
        ELSE IF nn.raised THEN [kind |-> "raise"]
        ELSE [kind |-> "row",
              cand |-> Candidate(IF merged THEN MERGE_EMAIL ELSE email,
                                 IF merged THEN LaceyName[1] ELSE nn.first,
                                 IF merged THEN LaceyName[2] ELSE nn.last,
                                 amt.value,
                                 Strip(OrEmpty(row.email)),
                                 Strip(OrEmpty(row.txn_id)))]

RECURSIVE LoadRows(_, _)
LoadRows(file, rows) ==
    IF file = <<>> THEN [raised |-> FALSE, rows |-> rows]
    ELSE LET r == LoadRow(Head(file)) IN
         IF r.kind = "raise" THEN [raised |-> TRUE, rows |-> <<>>]
         ELSE IF r.kind = "skip" THEN LoadRows(Tail(file), rows)
         ELSE LoadRows(Tail(file), Append(rows, r.cand))

load_rows_from_csv(file) == LoadRows(file, <<>>)

(***************************************************************************)
(* find_conflicting_names and the conflict report.                         *)
(***************************************************************************)
\* variant: groups by the address as written, without lower()
find_conflicting_names_exact(rows) ==
    LET keys == {rows[i].email : i \in 1..Len(rows)}
        names_by_email == [e \in keys |->
            {<<rows[i].first_name, rows[i].last_name>> : i \in {j \in 1..Len(rows) : rows[j].email = e}}]
    IN  [e \in {k \in keys : Cardinality(names_by_email[k]) > 1 /\ k # MERGE_EMAIL} |-> names_by_email[e]]


find_conflicting_names(rows) ==
    LET keys == {Lower(rows[i].email) : i \in 1..Len(rows)}
        names_by_email == [e \in keys |->
            {<<rows[i].first_name, rows[i].last_name>> : i \in {j \in 1..Len(rows) : Lower(rows[j].email) = e}}]
    IN  [e \in {k \in keys : Cardinality(names_by_email[k]) > 1 /\ k # MERGE_EMAIL} |-> names_by_email[e]]

Ord(c) == IndexIn(c, CodePoints)

\* str < str as Python compares strings
RECURSIVE StrLess(_, _)
StrLess(s, t) ==
    IF t = <<>> THEN FALSE
    ELSE IF s = <<>> THEN TRUE
    ELSE IF Head(s) # Head(t) THEN Ord(Head(s)) < Ord(Head(t))
    ELSE StrLess(Tail(s), Tail(t))

\* tuple < tuple on (first, last)
PairLess(p, q) == StrLess(p[1], q[1]) \/ (p[1] = q[1] /\ StrLess(p[2], q[2]))

\* sorted(list(names))
RECURSIVE SortedPairs(_)
SortedPairs(names) ==
    IF names = {} THEN <<>>
    ELSE LET m == CHOOSE p \in names : \A q \in names \ {p} : PairLess(p, q)
         IN  <<m>> \o SortedPairs(names \ {m})

ConflictReport(conflicts) == [e \in DOMAIN conflicts |-> SortedPairs(conflicts[e])]

NoReport == [written |-> FALSE, content |-> <<>>]

(***************************************************************************)
(* dedupe_by_txn_id.                                                       *)
(***************************************************************************)
RECURSIVE DedupeLoop(_, _, _)
DedupeLoop(rows, seen, out) ==
    IF rows = <<>> THEN out
    ELSE LET r == Head(rows) IN
         IF r.txn_id = <<>> THEN DedupeLoop(Tail(rows), seen, Append(out, r))
         ELSE IF r.txn_id \in seen THEN DedupeLoop(Tail(rows), seen, out)
         ELSE DedupeLoop(Tail(rows), seen \cup {r.txn_id}, Append(out, r))

Reverse(s) == [i \in 1..Len(s) |-> s[Len(s) + 1 - i]]

\* variant: the last occurrence of a transaction id wins
dedupe_by_txn_id_last(rows) ==
    LET have_txn_id == \E i \in 1..Len(rows) : rows[i].txn_id # <<>>
    IN  IF ~have_txn_id THEN rows ELSE Reverse(DedupeLoop(Reverse(rows), {}, <<>>))


dedupe_by_txn_id(rows) ==
    LET have_txn_id == \E i \in 1..Len(rows) : rows[i].txn_id # <<>>
    IN  IF ~have_txn_id THEN rows ELSE DedupeLoop(rows, {}, <<>>)

(***************************************************************************)
(* The ledger store: the donors and donations tables, and the statements   *)
(* upsert_donations runs on them.                                          *)
(***************************************************************************)
EmptyStore == [donors |-> <<>>, donations |-> <<>>]

NoTxn == [open |-> FALSE, db |-> EmptyStore]

\* nextval of the donors id sequence
NextId(db) ==
    LET ids == {db.donors[i].id : i \in 1..Len(db.donors)}
    IN  IF ids = {} THEN 1 ELSE 1 + (CHOOSE m \in ids : \A n \in ids : n <= m)

\* INSERT INTO donors ... ON CONFLICT (email) DO UPDATE SET first_name, last_name
UpsertDonorRow(db, email, first, last) ==
    IF \E i \in 1..Len(db.donors) : db.donors[i].email = email
    THEN [db EXCEPT !.donors = [i \in 1..Len(db.donors) |->
              IF db.donors[i].email = email
              THEN [db.donors[i] EXCEPT !.first_name = first, !.last_name = last]
              ELSE db.donors[i]]]
    ELSE [db EXCEPT !.donors = Append(db.donors,
              [id |-> NextId(db), email |-> email, first_name |-> first,
               last_name |-> last, lifetime_donated |-> Num(0)])]

\* variant: the first name seen for an address is kept
RECURSIVE DonorsDict_first(_, _)
DonorsDict_first(rows, d) ==
    IF rows = <<>> THEN d
    ELSE LET r == Head(rows)
             item == <<r.email, r.first_name, r.last_name>>
         IN  IF \E i \in 1..Len(d) : d[i][1] = r.email
             THEN DonorsDict_first(Tail(rows), d)
             ELSE DonorsDict_first(Tail(rows), Append(d, item))

\* donors[r["email"]] = (first, last) over the rows: a dict keeps the position
\* of a key's first assignment and the value of its last
RECURSIVE DonorsDict(_, _)
DonorsDict(rows, d) ==
    IF rows = <<>> THEN d
    ELSE LET r == Head(rows)
             item == <<r.email, r.first_name, r.last_name>>
         IN  IF \E i \in 1..Len(d) : d[i][1] = r.email
             THEN DonorsDict(Tail(rows), [i \in 1..Len(d) |-> IF d[i][1] = r.email THEN item ELSE d[i]])
             ELSE DonorsDict(Tail(rows), Append(d, item))

\* the Casleton override inside the upsert loop
UpsertArgs(item) ==
    IF Lower(item[1]) = CASLETON_EMAIL
    THEN <<item[1], CasletonName[1], CasletonName[2]>>
    ELSE item

\* SELECT id, email FROM donors, as the dict {email: id}
SelectIdByEmail(db) ==
    [e \in {db.donors[i].email : i \in 1..Len(db.donors)} |->
        (CHOOSE d \in {db.donors[i] : i \in 1..Len(db.donors)} : d.email = e).id]

RECURSIVE Payload(_, _)
Payload(rows, ids) ==
    IF rows = <<>> THEN <<>>
    ELSE LET r == Head(rows) IN
         IF r.email \notin DOMAIN ids THEN Payload(Tail(rows), ids)
         ELSE <<[donor_id |-> ids[r.email], amount |-> r.amount,
                 source |-> r.source, raw_email |-> r.raw_email]>> \o Payload(Tail(rows), ids)

\* execute_batch(INSERT INTO donations ...)
InsertDonationRows(db, payload) == [db EXCEPT !.donations = db.donations \o payload]

RECURSIVE SumAmounts(_, _)
SumAmounts(donations, donor_id) ==
    IF donations = <<>> THEN Num(0)
    ELSE IF Head(donations).donor_id = donor_id
         THEN FloatAdd(Head(donations).amount, SumAmounts(Tail(donations), donor_id))
         ELSE SumAmounts(Tail(donations), donor_id)

\* variant: the totals are left as they are
RecomputeLifetime_skip(db) == db

\* UPDATE donors d SET lifetime_donated = COALESCE((SELECT SUM(amount) ...), 0)
RecomputeLifetime(db) ==
    [db EXCEPT !.donors = [i \in 1..Len(db.donors) |->
        [db.donors[i] EXCEPT !.lifetime_donated = SumAmounts(db.donations, db.donors[i].id)]]]

(***************************************************************************)
(* Inputs: the rows of the export files and the store before the run.      *)
(***************************************************************************)
EmailA == <<"a", "@", "x">>
EmailAUpper == <<"A", "@", "x">>
EmailAPadded == <<" ", "A", "@", "x", " ">>
EmailZ == <<"z", "@", "x">>
MonasteryMixed == <<"I", "N", "F", "O", "@", "M", "o", "n", "t", "e", "a", "g", "l", "e", "M", "o", "n", "a", "s", "t", "e", "r", "y", ".", "o", "r", "g">>
CasletonMixed == <<"C", "h", "r", "i", "s", "C", "a", "s", "l", "e", "t", "o", "n", "@", "g", "m", "a", "i", "l", ".", "c", "o", "m">>
JaneDoe == <<"J", "a", "n", "e", " ", "D", "o", "e">>
BobRoe == <<"B", "o", "b", " ", "R", "o", "e">>
LaceyVann == <<"L", "a", "c", "e", "y", " ", "V", "a", "n", "n">>
LaceyDioneUpper == <<"L", "A", "C", "E", "Y", " ", "D", "I", "O", "N", "E">>
OBrienSmith == <<"o", "'", "b", "r", "i", "e", "n", "-", "s", "m", "i", "t", "h">>
AcmeInc == <<"A", "c", "m", "e", " ", "I", "n", "c">>
TxnOne == <<"T", "1">>
TxnTwo == <<"T", "2">>

RawRow(name, email, gross, txn_id) ==
    [name |-> name, email |-> email, gross |-> gross, txn_id |-> txn_id]

\* rows for whole-batch runs: a shared transaction id, a blank one, two names
\* on one address, a letter-case variant, the merge address and the couple's
CoreRows ==
    { RawRow(JaneDoe, EmailA, <<"5">>, TxnOne),
      RawRow(BobRoe, EmailA, <<"3">>, <<>>),
      RawRow(JaneDoe, EmailAUpper, <<"5">>, TxnOne),
      RawRow(<<>>, CASLETON_EMAIL, <<"2">>, TxnTwo),
      RawRow(LaceyVann, EmailA, <<"4">>, <<>>),
      RawRow(JaneDoe, MERGE_EMAIL, <<"1">>, TxnTwo) }

\* rows for single-row runs: every combination of the field values
RowNames == {None, <<" ">>, LaceyVann, LaceyDioneUpper, JaneDoe, OBrienSmith, AcmeInc}
RowEmails == {None, <<" ">>, EmailA, EmailAPadded, MonasteryMixed, MERGE_EMAIL, CasletonMixed, SPORTYS_EMAIL}
RowGross == {None, <<"5">>, <<"0">>, <<"(", "5", ")">>, <<"a", "b", "c">>, <<"n", "a", "n">>, <<"$", "1", ",", "5">>}
RowTxnIds == {None, TxnOne}
AllRows == {RawRow(n, e, g, t) : n \in RowNames, e \in RowEmails, g \in RowGross, t \in RowTxnIds}

SeqsUpTo(S, n) == UNION {[1..k -> S] : k \in 0..n}

\* a store left by earlier imports: lifetime totals that do not match the
\* donations, and a donor no row of the batch names
SeededStore ==
    [donors |-> << [id |-> 1, email |-> EmailA, first_name |-> <<"O", "l", "d">>,
                    last_name |-> <<"N", "a", "m", "e">>, lifetime_donated |-> Num(7)],
                   [id |-> 2, email |-> EmailZ, first_name |-> <<"Z", "e", "d">>,
                    last_name |-> <<"Z", "e", "e">>, lifetime_donated |-> Num(9)] >>,
     donations |-> << [donor_id |-> 1, amount |-> Num(4), source |-> SOURCE_TAG, raw_email |-> EmailA] >>]

(***************************************************************************)
(* main(): the state of one invocation, and of the store across them.      *)
(***************************************************************************)
InitWith(fs, dry, frc, store) ==
    /\ files = fs
    /\ dry_run = dry
    /\ force = frc
    /\ pc = "load"
    /\ run = 1
    /\ last_run = [dry_run |-> FALSE, console |-> <<>>]
    /\ idx = 1
    /\ parsed = <<>>
    /\ all_rows = <<>>
    /\ report = NoReport
    /\ donors = <<>>
    /\ id_by_email = <<>>
    /\ committed = store
    /\ txn = NoTxn
    /\ before = store
    /\ console = <<>>
    /\ executed = <<>>

Init ==
    \E rows \in SeqsUpTo(CoreRows, MaxRows), dry \in BOOLEAN, frc \in BOOLEAN,
       store \in {EmptyStore, SeededStore} :
        \* two export files, the rows split between them
        LET cut == Len(rows) \div 2 IN
        InitWith(<<SubSeq(rows, 1, cut), SubSeq(rows, cut + 1, Len(rows))>>, dry, frc, store)

InitRow ==
    \E r \in AllRows, dry \in BOOLEAN, frc \in BOOLEAN,
       second \in {<<>>, <<RawRow(BobRoe, EmailA, <<"3">>, <<>>)>>} :
        InitWith(<< <<r>>, second >>, dry, frc, EmptyStore)

\* for p in files: all_rows.extend(load_rows_from_csv(p))
LoadFile ==
    /\ pc = "load"
    /\ idx <= Len(files)
    /\ LET res == load_rows_from_csv(files[idx]) IN
       IF res.raised
       THEN /\ pc' = "crashed"
            /\ UNCHANGED <<idx, all_rows>>
       ELSE /\ all_rows' = all_rows \o res.rows
            /\ idx' = idx + 1
            /\ pc' = IF idx = Len(files) THEN "dedupe" ELSE "load"
    /\ UNCHANGED <<files, dry_run, force, run, last_run, parsed, report, donors,
                   id_by_email, committed, txn, before, console, executed>>

\* all_rows = dedupe_by_txn_id(all_rows)
Dedupe ==
    /\ pc = "dedupe"
    /\ parsed' = all_rows
    /\ all_rows' = dedupe_by_txn_id(all_rows)
    /\ pc' = "check"
    /\ UNCHANGED <<files, dry_run, force, run, last_run, idx, report, donors,
                   id_by_email, committed, txn, before, console, executed>>

\* conflicts found, no --force: write the report and return
ConflictHalt ==
    /\ pc = "check"
    /\ DOMAIN find_conflicting_names(all_rows) # {}
    /\ ~force
    /\ report' = [written |-> TRUE, content |-> ConflictReport(find_conflicting_names(all_rows))]
    /\ pc' = "halted"
    /\ UNCHANGED <<files, dry_run, force, run, last_run, idx, parsed, all_rows, donors,
                   id_by_email, committed, txn, before, console, executed>>

\* conflicts found, --force: write the report and go on
ConflictForced ==
    /\ pc = "check"
    /\ DOMAIN find_conflicting_names(all_rows) # {}
    /\ force
    /\ report' = [written |-> TRUE, content |-> ConflictReport(find_conflicting_names(all_rows))]
    /\ pc' = "connect"
    /\ UNCHANGED <<files, dry_run, force, run, last_run, idx, parsed, all_rows, donors,
                   id_by_email, committed, txn, before, console, executed>>

NoConflict ==
    /\ pc = "check"
    /\ DOMAIN find_conflicting_names(all_rows) = {}
    /\ pc' = "connect"
    /\ UNCHANGED <<files, dry_run, force, run, last_run, idx, parsed, all_rows, report,
                   donors, id_by_email, committed, txn, before, console, executed>>

\* where upsert_donations goes once the donor loop is over
AfterDonors == IF dry_run THEN "print" ELSE IF all_rows # <<>> THEN "select" ELSE "commit"

\* psycopg2.connect, then the start of upsert_donations: the donors dict
Connect ==
    /\ pc = "connect"
    /\ txn' = [open |-> TRUE, db |-> committed]
    /\ donors' = DonorsDict(all_rows, <<>>)
    /\ idx' = 1
    /\ pc' = IF all_rows = <<>> THEN AfterDonors ELSE "upsert"
    /\ UNCHANGED <<files, dry_run, force, run, last_run, parsed, all_rows, report,
                   id_by_email, committed, before, console, executed>>

\* psycopg2.connect raises
ConnectFail ==
    /\ pc = "connect"
    /\ pc' = "failed"
    /\ UNCHANGED <<files, dry_run, force, run, last_run, idx, parsed, all_rows, report,
                   donors, id_by_email, committed, txn, before, console, executed>>

\* variant: the dry-run line is printed before the Casleton override
DryRunDonor_raw ==
    /\ pc = "upsert"
    /\ dry_run
    /\ LET a == donors[idx] IN
       console' = Append(console, [kind |-> "donor", email |-> a[1], first |-> a[2], last |-> a[3]])
    /\ idx' = idx + 1
    /\ pc' = IF idx = Len(donors) THEN AfterDonors ELSE "upsert"
    /\ UNCHANGED <<files, dry_run, force, run, last_run, parsed, all_rows, report, donors,
                   id_by_email, committed, txn, before, executed>>

\* one pass of the donor loop under --dry-run
DryRunDonor ==
    /\ pc = "upsert"
    /\ dry_run
    /\ LET a == UpsertArgs(donors[idx]) IN
       console' = Append(console, [kind |-> "donor", email |-> a[1], first |-> a[2], last |-> a[3]])
    /\ idx' = idx + 1
    /\ pc' = IF idx = Len(donors) THEN AfterDonors ELSE "upsert"
    /\ UNCHANGED <<files, dry_run, force, run, last_run, parsed, all_rows, report, donors,
                   id_by_email, committed, txn, before, executed>>

\* one pass of the donor loop: the upsert statement
UpsertDonor ==
    /\ pc = "upsert"
    /\ ~dry_run
    /\ LET a == UpsertArgs(donors[idx]) IN
       /\ txn' = [txn EXCEPT !.db = UpsertDonorRow(txn.db, a[1], a[2], a[3])]
       /\ executed' = Append(executed, [op |-> "upsert", email |-> a[1], first |-> a[2], last |-> a[3]])
    /\ idx' = idx + 1
    /\ pc' = IF idx = Len(donors) THEN AfterDonors ELSE "upsert"
    /\ UNCHANGED <<files, dry_run, force, run, last_run, parsed, all_rows, report, donors,
                   id_by_email, committed, before, console>>

DonationLine(r) ==
    [kind |-> "donation", email |-> r.email, first |-> r.first_name, last |-> r.last_name,
     amount |-> r.amount, source |-> r.source]

\* --dry-run: print the donations and return; main closes the connection
DryRunDonations ==
    /\ pc = "print"
    /\ console' = console \o [i \in 1..Len(all_rows) |-> DonationLine(all_rows[i])]
    /\ txn' = NoTxn
    /\ pc' = "done"
    /\ UNCHANGED <<files, dry_run, force, run, last_run, idx, parsed, all_rows, report,
                   donors, id_by_email, committed, before, executed>>

SelectDonorIds ==
    /\ pc = "select"
    /\ id_by_email' = SelectIdByEmail(txn.db)
    /\ pc' = "insert"
    /\ UNCHANGED <<files, dry_run, force, run, last_run, idx, parsed, all_rows, report,
                   donors, committed, txn, before, console, executed>>

InsertDonations ==
    /\ pc = "insert"
    /\ LET payload == Payload(all_rows, id_by_email) IN
       /\ txn' = [txn EXCEPT !.db = InsertDonationRows(txn.db, payload)]
       /\ executed' = Append(executed, [op |-> "insert", payload |-> payload])
    /\ pc' = "recompute"
    /\ UNCHANGED <<files, dry_run, force, run, last_run, idx, parsed, all_rows, report,
                   donors, id_by_email, committed, before, console>>

Recompute ==
    /\ pc = "recompute"
    /\ txn' = [txn EXCEPT !.db = RecomputeLifetime(txn.db)]
    /\ executed' = Append(executed, [op |-> "recompute"])
    /\ pc' = "commit"
    /\ UNCHANGED <<files, dry_run, force, run, last_run, idx, parsed, all_rows, report,
                   donors, id_by_email, committed, before, console>>

\* conn.commit(), then main closes the connection
Commit ==
    /\ pc = "commit"
    /\ committed' = txn.db
    /\ txn' = NoTxn
    /\ executed' = Append(executed, [op |-> "commit"])
    /\ pc' = "done"
    /\ UNCHANGED <<files, dry_run, force, run, last_run, idx, parsed, all_rows, report,
                   donors, id_by_email, before, console>>

\* variant: the connection is in autocommit mode, so what ran before the
\* failure stays
WriteFail_autocommit ==
    /\ pc \in {"upsert", "select", "insert", "recompute", "commit"}
    /\ ~dry_run
    /\ committed' = txn.db
    /\ txn' = NoTxn
    /\ pc' = "failed"
    /\ UNCHANGED <<files, dry_run, force, run, last_run, idx, parsed, all_rows, report,
                   donors, id_by_email, before, console, executed>>

\* a statement or the commit raises: the exception leaves upsert_donations,
\* main's finally closes the connection, the open transaction is discarded
WriteFail ==
    /\ pc \in {"upsert", "select", "insert", "recompute", "commit"}
    /\ ~dry_run
    /\ txn' = NoTxn
    /\ pc' = "failed"
    /\ UNCHANGED <<files, dry_run, force, run, last_run, idx, parsed, all_rows, report,
                   donors, id_by_email, committed, before, console, executed>>

\* the operator runs the importer again on the same files, without --dry-run
\* (after a dry run: the real import; after an import: a re-import)
Rerun ==
    /\ pc = "done"
    /\ run < MaxRuns
    /\ dry_run' = FALSE
    /\ run' = run + 1
    /\ last_run' = [dry_run |-> dry_run, console |-> console]
    /\ pc' = "load"
    /\ idx' = 1
    /\ parsed' = <<>>
    /\ all_rows' = <<>>
    /\ donors' = <<>>
    /\ id_by_email' = <<>>
    /\ before' = committed
    /\ console' = <<>>
    /\ executed' = <<>>
    /\ UNCHANGED <<files, force, report, committed, txn>>

Next ==
    \/ LoadFile
    \/ Dedupe
    \/ ConflictHalt
    \/ ConflictForced
    \/ NoConflict
    \/ Connect
    \/ ConnectFail
    \/ DryRunDonor
    \/ UpsertDonor
    \/ DryRunDonations
    \/ SelectDonorIds
    \/ InsertDonations
    \/ Recompute
    \/ Commit
    \/ WriteFail
    \/ Rerun

Spec == Init /\ [][Next]_vars

SpecRow == InitRow /\ [][Next]_vars
(***************************************************************************)
(* Properties.                                                             *)
(***************************************************************************)
\* the run is past the conflict check
PastCheck == pc \notin {"load", "dedupe", "check", "crashed"}

\* the run is past the dedup stage
PastDedupe == pc \notin {"load", "dedupe", "crashed"}

\* some address other than the merge target carries two different names
HasNameConflict(rows) ==
    \E i, j \in 1..Len(rows) :
        /\ Lower(rows[i].email) = Lower(rows[j].email)
        /\ Lower(rows[i].email) # MERGE_EMAIL
        /\ <<rows[i].first_name, rows[i].last_name>> # <<rows[j].first_name, rows[j].last_name>>

NamesOf(rows, e) ==
    {<<rows[i].first_name, rows[i].last_name>> : i \in {j \in 1..Len(rows) : Lower(rows[j].email) = e}}

ReportCovers(rows) ==
    \A i \in 1..Len(rows) :
        LET e == Lower(rows[i].email) IN
        (e # MERGE_EMAIL /\ Cardinality(NamesOf(rows, e)) > 1) =>
            /\ e \in DOMAIN report.content
            /\ {report.content[e][k] : k \in 1..Len(report.content[e])} = NamesOf(rows, e)
            /\ \A a, b \in 1..Len(report.content[e]) :
                   a < b => PairLess(report.content[e][a], report.content[e][b])

\* C1: when, after dedup, an address other than the merge target carries more
\* than one (first, last) pair and --force is not given, the run halts with no
\* donor upsert, no donation insert, no recompute and no commit, the store is
\* as it was, and the conflict report (address -> sorted pairs) is written;
\* in dry-run and in normal mode alike.
C1_ConflictGate ==
    (PastCheck /\ HasNameConflict(all_rows) /\ ~force) =>
        /\ pc = "halted"
        /\ executed = <<>>
        /\ ~txn.open
        /\ committed = before
        /\ report.written
        /\ ReportCovers(all_rows)

C1_Witness ==
    /\ pc = "halted"
    /\ ~dry_run
    /\ before = SeededStore
    /\ \E i, j \in 1..Len(all_rows) :
          all_rows[i].email # all_rows[j].email /\ Lower(all_rows[i].email) = Lower(all_rows[j].email)

\* the donor upserts of the whole loop, applied in order
RECURSIVE UpsertAll(_, _)
UpsertAll(db, d) ==
    IF d = <<>> THEN db
    ELSE LET a == UpsertArgs(Head(d)) IN UpsertAll(UpsertDonorRow(db, a[1], a[2], a[3]), Tail(d))

\* the store a complete write of the rows leaves
WriteAll(db, rows) ==
    IF rows = <<>> THEN db
    ELSE LET db1 == UpsertAll(db, DonorsDict(rows, <<>>))
         IN  RecomputeLifetime(InsertDonationRows(db1, Payload(rows, SelectIdByEmail(db1))))

\* C2: the write phase is all-or-nothing: while it is under way, and after a
\* failure at any of its steps, the committed store is the store before the
\* run; after a run that completed, it is the store with every change applied.
C2_AtomicWrite ==
    /\ (pc \in {"connect", "upsert", "select", "insert", "recompute", "commit", "failed"}
           => committed = before)
    /\ (pc = "failed" => ~txn.open)
    /\ (pc = "done" /\ ~dry_run => committed = WriteAll(before, all_rows))

C2_Witness ==
    /\ pc = "failed"
    /\ \E i \in 1..Len(executed) : executed[i].op = "insert" /\ executed[i].payload # <<>>
    /\ committed = before

DonorLines(out) ==
    {<<out[i].email, out[i].first, out[i].last>> : i \in {j \in 1..Len(out) : out[j].kind = "donor"}}

DonationLines(out) ==
    LET ls == SelectSeq(out, LAMBDA l : l.kind = "donation")
    IN  [i \in 1..Len(ls) |-> <<ls[i].email, ls[i].amount, ls[i].source>>]

UpsertsRun(ex) ==
    {<<ex[i].email, ex[i].first, ex[i].last>> : i \in {j \in 1..Len(ex) : ex[j].op = "upsert"}}

EmailOfDonor(db, id) ==
    (CHOOSE d \in {db.donors[i] : i \in 1..Len(db.donors)} : d.id = id).email

RECURSIVE InsertsRun(_, _)
InsertsRun(ex, db) ==
    IF ex = <<>> THEN <<>>
    ELSE IF Head(ex).op = "insert"
         THEN [i \in 1..Len(Head(ex).payload) |->
                  <<EmailOfDonor(db, Head(ex).payload[i].donor_id),
                    Head(ex).payload[i].amount, Head(ex).payload[i].source>>]
              \o InsertsRun(Tail(ex), db)
         ELSE InsertsRun(Tail(ex), db)

\* C3: a dry run changes nothing in the store and runs no statement, and the
\* donors and the sequence of donations it printed are the donor upserts
\* (email, first, last) and the donation inserts that the real run on the same
\* candidate list then performs.
C3_DryRunMirrors ==
    /\ (dry_run => committed = before /\ executed = <<>>)
    /\ (pc = "done" /\ dry_run => ~txn.open)
    /\ (pc = "done" /\ ~dry_run /\ run > 1 /\ last_run.dry_run) =>
           /\ DonorLines(last_run.console) = UpsertsRun(executed)
           /\ DonationLines(last_run.console) = InsertsRun(executed, committed)

C3_Witness ==
    /\ pc = "done" /\ ~dry_run /\ run > 1 /\ last_run.dry_run
    /\ Len(DonationLines(last_run.console)) > 1
    /\ \E l \in DonorLines(last_run.console) : l[1] = CASLETON_EMAIL

FirstOfItsTxn(rows, i) ==
    rows[i].txn_id = <<>> \/ \A j \in 1..(i - 1) : rows[j].txn_id # rows[i].txn_id

\* the subsequence of rows, from position i on, of the rows that are blank-id
\* or the first of their id
RECURSIVE FirstsFrom(_, _)
FirstsFrom(rows, i) ==
    IF i > Len(rows) THEN <<>>
    ELSE (IF FirstOfItsTxn(rows, i) THEN <<rows[i]>> ELSE <<>>) \o FirstsFrom(rows, i + 1)

\* C4: the dedup stage returns its input when no candidate has a transaction
\* id; otherwise the order-preserving subsequence with every blank-id candidate
\* and the first occurrence of each id, so that no two survivors share an id.
C4_DedupByTxnId ==
    PastDedupe =>
        /\ ((\A i \in 1..Len(parsed) : parsed[i].txn_id = <<>>) => all_rows = parsed)
        /\ all_rows = FirstsFrom(parsed, 1)
        /\ \A i, j \in 1..Len(all_rows) :
               (i # j /\ all_rows[i].txn_id # <<>>) => all_rows[i].txn_id # all_rows[j].txn_id

C4_Witness ==
    /\ pc = "check"
    /\ Len(all_rows) < Len(parsed)
    /\ all_rows = <<parsed[1]>>
    /\ parsed[2].email # parsed[1].email
\* every row of the input files carries a transaction id
AllRowsHaveTxnId ==
    \A f \in 1..Len(files) : \A i \in 1..Len(files[f]) : Strip(OrEmpty(files[f][i].txn_id)) # <<>>

\* a re-import: this run and the one before it both wrote to the store
IsReimport == run > 1 /\ pc = "done" /\ ~dry_run /\ ~last_run.dry_run /\ AllRowsHaveTxnId

RECURSIVE BatchTotal(_, _)
BatchTotal(rows, email) ==
    IF rows = <<>> THEN Num(0)
    ELSE IF Head(rows).email = email
         THEN FloatAdd(Head(rows).amount, BatchTotal(Tail(rows), email))
         ELSE BatchTotal(Tail(rows), email)

\* C5 as stated: a second run on the same files, all rows with transaction
\* ids, from the store the first run left, leaves the Donation rows and every
\* lifetime_donated as they were after the first run.
C5_ReimportIdempotent ==
    IsReimport =>
        /\ committed.donations = before.donations
        /\ \A i \in 1..Len(committed.donors) :
               committed.donors[i].lifetime_donated = before.donors[i].lifetime_donated

\* C5 as amended: the second run leaves the Donor rows' identity and names as
\* they were, appends one Donation per surviving candidate once more (the
\* dedup looks at the batch only), and adds the batch's amounts to each
\* donor's lifetime_donated.
C5_ReimportAppends ==
    IsReimport =>
        /\ Len(committed.donors) = Len(before.donors)
        /\ \A i \in 1..Len(committed.donors) :
               /\ committed.donors[i].id = before.donors[i].id
               /\ committed.donors[i].email = before.donors[i].email
               /\ committed.donors[i].first_name = before.donors[i].first_name
               /\ committed.donors[i].last_name = before.donors[i].last_name
               /\ committed.donors[i].lifetime_donated =
                      FloatAdd(before.donors[i].lifetime_donated,
                               BatchTotal(all_rows, committed.donors[i].email))
        /\ Len(committed.donations) = Len(before.donations) + Len(all_rows)
        /\ SubSeq(committed.donations, 1, Len(before.donations)) = before.donations
        /\ \A k \in 1..Len(all_rows) :
               LET dn == committed.donations[Len(before.donations) + k] IN
               /\ dn.amount = all_rows[k].amount
               /\ dn.raw_email = all_rows[k].raw_email
               /\ EmailOfDonor(committed, dn.donor_id) = all_rows[k].email

C5_Witness ==
    /\ IsReimport
    /\ Len(all_rows) > 1
    /\ Len(committed.donations) > Len(before.donations)
    /\ Len(before.donations) >= Len(all_rows)

\* C6: after a write that completed, every Donor's lifetime_donated is the sum
\* of the amounts of the Donation rows that reference it (0 when none),
\* whatever the store was before and whatever the candidate list, the empty
\* one included.
C6_LifetimeIsSum ==
    (pc = "done" /\ ~dry_run) =>
        \A i \in 1..Len(committed.donors) :
            committed.donors[i].lifetime_donated =
                SumAmounts(committed.donations, committed.donors[i].id)

\* the filters of the loader, as the claim words them
Filtered(row) ==
    \/ Strip(OrEmpty(row.email)) = <<>>
    \/ Lower(Strip(OrEmpty(row.email))) = MONASTERY_EMAIL
    \/ parse_amount(row.gross).raised
    \/ ~FloatGt0(parse_amount(row.gross).value)

\* the first file, which holds one row, has been read
FirstRowLoaded == (pc = "load" /\ idx > 1) \/ pc \notin {"load", "crashed"}

\* C7: a row whose email is blank, or is the internal-transfer address in any
\* letter case, or whose gross amount is unparsable or not strictly positive,
\* yields no candidate; every candidate, and every Donation the import inserts,
\* has amount > 0.
C7_RowFiltering ==
    /\ (pc = "load" /\ idx = 2 /\ Filtered(files[1][1])) => all_rows = <<>>
    /\ \A i \in 1..Len(all_rows) : FloatGt0(all_rows[i].amount)
    /\ \A i \in 1..Len(committed.donations) : FloatGt0(committed.donations[i].amount)

\* C8: every candidate's email is lowercase, so that rows whose emails differ
\* only in letter case end on one Donor.
C8_EmailLowercase ==
    /\ \A i \in 1..Len(all_rows) : all_rows[i].email = Lower(all_rows[i].email)
    /\ \A i, j \in 1..Len(committed.donors) :
           Lower(committed.donors[i].email) = Lower(committed.donors[j].email) => i = j

IsLaceyRow(row) ==
    Lower(Strip(OrEmpty(row.name))) \in
        { <<"l", "a", "c", "e", "y", " ", "v", "a", "n", "n">>,
          <<"l", "a", "c", "e", "y", " ", "d", "i", "o", "n", "e">> }

IsMergedCandidate(c, row) ==
    /\ c.email = MERGE_EMAIL
    /\ c.first_name = <<"L", "a", "c", "e", "y">>
    /\ c.last_name = <<"D", "i", "o", "n", "e">>
    /\ c.raw_email = Strip(OrEmpty(row.email))

\* C9 as stated: a row that passes the filters and is named "Lacey Vann" or
\* "Lacey Dione" in any letter case becomes, whatever its email, a candidate
\* with the merge-target email and the name (Lacey, Dione), its raw_email the
\* row's own email.
C9_LaceyMergeAnyEmail ==
    (FirstRowLoaded /\ IsLaceyRow(files[1][1]) /\ ~Filtered(files[1][1])) =>
        /\ all_rows # <<>>
        /\ IsMergedCandidate(all_rows[1], files[1][1])

\* the addresses normalize_name answers for before it looks at the name
HasEmailKeyedName(row) ==
    Lower(Strip(OrEmpty(row.email))) \in {CASLETON_EMAIL, SPORTYS_EMAIL}

\* C9 as amended: the same, for rows whose email is not one of the two
\* addresses with an email-keyed name (chriscasleton@gmail.com,
\* sportystn@bellsouth.net, in any letter case); raw_email is the row's email
\* with surrounding whitespace trimmed and its casing kept.
C9_LaceyMerge ==
    (FirstRowLoaded /\ IsLaceyRow(files[1][1]) /\ ~Filtered(files[1][1])
        /\ ~HasEmailKeyedName(files[1][1])) =>
        /\ all_rows # <<>>
        /\ IsMergedCandidate(all_rows[1], files[1][1])

C9_Witness ==
    /\ pc = "done"
    /\ IsLaceyRow(files[1][1])
    /\ Lower(files[1][1].name) # files[1][1].name
    /\ all_rows # <<>>
    /\ all_rows[1].email = MERGE_EMAIL
    /\ all_rows[1].raw_email = EmailAUpper

DonorsWithEmail(db, e) == {i \in 1..Len(db.donors) : db.donors[i].email = e}

LastNameFor(rows, e) ==
    LET k == CHOOSE m \in 1..Len(rows) :
                 rows[m].email = e /\ \A n \in (m + 1)..Len(rows) : rows[n].email # e
    IN  <<rows[k].first_name, rows[k].last_name>>

InBatch(e) == \E i \in 1..Len(all_rows) : all_rows[i].email = e

\* what an upsert leaves alone: ids, emails and Donation rows of the Donors
\* there were, and the names of those the batch does not mention
UpsertFrame ==
    /\ \A j \in 1..Len(before.donors) :
           \E k \in 1..Len(committed.donors) :
               /\ committed.donors[k].id = before.donors[j].id
               /\ committed.donors[k].email = before.donors[j].email
               /\ ~InBatch(before.donors[j].email) =>
                      /\ committed.donors[k].first_name = before.donors[j].first_name
                      /\ committed.donors[k].last_name = before.donors[j].last_name
    /\ SubSeq(committed.donations, 1, Len(before.donations)) = before.donations

\* C10 as stated: after a write that completed, each email of the candidate
\* list has exactly one Donor, named as the last candidate with that email is;
\* Donors that existed keep id and Donation rows, and those not in the batch
\* keep their names.
C10_UpsertLastNameWins ==
    (pc = "done" /\ ~dry_run) =>
        /\ \A i \in 1..Len(all_rows) :
               LET e == all_rows[i].email IN
               /\ Cardinality(DonorsWithEmail(committed, e)) = 1
               /\ \A k \in DonorsWithEmail(committed, e) :
                      <<committed.donors[k].first_name, committed.donors[k].last_name>>
                          = LastNameFor(all_rows, e)
        /\ UpsertFrame

\* C10 as amended: the same, except that the Donor of chriscasleton@gmail.com
\* (in any letter case) is always named (Catherine & Warren, Casleton).
C10_UpsertOverwrites ==
    (pc = "done" /\ ~dry_run) =>
        /\ \A i \in 1..Len(all_rows) :
               LET e == all_rows[i].email IN
               /\ Cardinality(DonorsWithEmail(committed, e)) = 1
               /\ \A k \in DonorsWithEmail(committed, e) :
                      <<committed.donors[k].first_name, committed.donors[k].last_name>>
                          = IF Lower(e) = CASLETON_EMAIL THEN CasletonName
                            ELSE LastNameFor(all_rows, e)
        /\ UpsertFrame

C10_Witness ==
    /\ pc = "done" /\ ~dry_run /\ force
    /\ before = SeededStore
    /\ Len(all_rows) > 1
    /\ all_rows[1].email = EmailA /\ all_rows[2].email = EmailA
    /\ all_rows[1].last_name # all_rows[2].last_name
    /\ committed.donors[1].last_name = all_rows[2].last_name
====
